---- MODULE Spec2Model ----
(***************************************************************************)
(* Model of the PPE detection demo: the capture/render client              *)
(* (ppe_detector_rpi.py) and the inference service (app_server_x.py).      *)
(*                                                                         *)
(* Text is a sequence of one-character strings, so that prefix tests,      *)
(* slicing, splitting and integer parsing are computed as Python computes  *)
(* them.  Confidences and the threshold are percentages (0.5 is 50).       *)
(***************************************************************************)
EXTENDS Integers, Sequences, FiniteSets, TLC

(***************************************************************************)
(* Bounds of the model.                                                    *)
(***************************************************************************)
\* frames a capture device or video file delivers before a read fails
MaxFrames == 2
\* image files a folder source holds
MaxImgs == 2
\* detections in one response
MaxDets == 2
\* characters of the `image` field of a request to the service
MaxB64Len == 4
\* requests the service handles in one run
MaxReqs == 2
\* iterations of the long run beyond the frame-rate buffer's capacity
FpsRunExtra == 2

(***************************************************************************)
(* Text helpers.                                                           *)
(***************************************************************************)
Digits == {"0", "1", "2", "3", "4", "5", "6", "7", "8", "9"}

DigitVal(c) ==
    CASE c = "0" -> 0 [] c = "1" -> 1 [] c = "2" -> 2 [] c = "3" -> 3
      [] c = "4" -> 4 [] c = "5" -> 5 [] c = "6" -> 6 [] c = "7" -> 7
      [] c = "8" -> 8 [] OTHER -> 9

\* str.startswith
StartsWith(s, p) == Len(s) >= Len(p) /\ SubSeq(s, 1, Len(p)) = p

\* s[n:]
DropFirst(s, n) == SubSeq(s, n + 1, Len(s))

\* str.rfind of a single character, 1-based; 0 when absent
RFind(s, c) ==
    LET hits == {i \in 1..Len(s) : s[i] = c}
    IN  IF hits = {} THEN 0 ELSE CHOOSE i \in hits : \A j \in hits : j <= i

IsDigits(s) == Len(s) > 0 /\ \A i \in 1..Len(s) : s[i] \in Digits

\* int(s) succeeds: an optional sign and then digits.  (int() also accepts
\* surrounding whitespace and single underscores between digits; the
\* alphabet of the model has neither.)
PyIntOk(s) ==
    \/ IsDigits(s)
    \/ Len(s) > 1 /\ s[1] \in {"-", "+"} /\ IsDigits(Tail(s))

RECURSIVE DigitsVal(_)
DigitsVal(s) ==
    IF s = <<>> THEN 0
    ELSE 10 * DigitsVal(SubSeq(s, 1, Len(s) - 1)) + DigitVal(s[Len(s)])

\* the value of int(s) when PyIntOk(s)
PyIntVal(s) ==
    IF s[1] = "-" THEN 0 - DigitsVal(Tail(s))
    ELSE IF s[1] = "+" THEN DigitsVal(Tail(s))
    ELSE DigitsVal(s)

\* str.split(c): the pieces between the occurrences of c
RECURSIVE Split(_, _)
Split(s, c) ==
    LET hits == {i \in 1..Len(s) : s[i] = c}
    IN  IF hits = {} THEN <<s>>
        ELSE LET k == CHOOSE i \in hits : \A j \in hits : i <= j
             IN  <<SubSeq(s, 1, k - 1)>> \o Split(DropFirst(s, k), c)

\* os.path.splitext(p)[1]: from the last dot of the last path component,
\* unless that component has only dots before it
splitext(p) ==
    LET sepIndex == RFind(p, "/")
        dotIndex == RFind(p, ".")
    IN  IF dotIndex > sepIndex
           /\ \E k \in (sepIndex + 1)..(dotIndex - 1) : p[k] # "."
        THEN SubSeq(p, dotIndex, Len(p))
        ELSE <<>>

img_ext_list ==
    { <<".", "j", "p", "g">>, <<".", "J", "P", "G">>,
      <<".", "j", "p", "e", "g">>, <<".", "J", "P", "E", "G">>,
      <<".", "p", "n", "g">>, <<".", "P", "N", "G">>,
      <<".", "b", "m", "p">>, <<".", "B", "M", "P">> }

vid_ext_list ==
    { <<".", "a", "v", "i">>, <<".", "m", "o", "v">>, <<".", "m", "p", "4">>,
      <<".", "m", "k", "v">>, <<".", "w", "m", "v">> }

USB == <<"u", "s", "b">>
PICAMERA == <<"p", "i", "c", "a", "m", "e", "r", "a">>
RTSP == <<"r", "t", "s", "p", ":", "/", "/">>

(***************************************************************************)
(* Source type resolution (a pure function of the source string and of    *)
(* what the filesystem holds at that path: "dir", "file" or "none").       *)
(* The outcome is the source type, or how the process ends instead.        *)
(***************************************************************************)
ResolveSourceType(src, kind) ==
    IF kind = "dir" THEN [type |-> "folder", idx |-> 0]
    ELSE IF kind = "file" THEN
        IF splitext(src) \in img_ext_list THEN [type |-> "image", idx |-> 0]
        ELSE IF splitext(src) \in vid_ext_list THEN [type |-> "video", idx |-> 0]
        ELSE [type |-> "unsupported_ext", idx |-> 0]
    ELSE IF StartsWith(src, USB) THEN
        IF PyIntOk(DropFirst(src, 3))
        THEN [type |-> "usb", idx |-> PyIntVal(DropFirst(src, 3))]
        ELSE [type |-> "value_error", idx |-> 0]
    ELSE IF StartsWith(src, PICAMERA) THEN
        IF PyIntOk(DropFirst(src, 8))
        THEN [type |-> "picamera", idx |-> PyIntVal(DropFirst(src, 8))]
        ELSE [type |-> "value_error", idx |-> 0]
    ELSE IF StartsWith(src, RTSP) THEN [type |-> "rtsp", idx |-> 0]
    ELSE [type |-> "invalid", idx |-> 0]

SourceTypes == {"folder", "image", "video", "usb", "picamera", "rtsp"}
CapTypes == {"video", "usb", "rtsp"}

(***************************************************************************)
(* Resolution parsing: int(user_res.split('x')[0]), then                   *)
(* int(user_res.split('x')[1]); ValueError is caught, IndexError is not.   *)
(***************************************************************************)
ParseRes(r) ==
    LET parts == Split(r, "x")
    IN  IF ~PyIntOk(parts[1]) THEN [out |-> "value_error", w |-> 0, h |-> 0]
        ELSE IF Len(parts) < 2 THEN [out |-> "index_error", w |-> 0, h |-> 0]
        ELSE IF ~PyIntOk(parts[2]) THEN [out |-> "value_error", w |-> 0, h |-> 0]
        ELSE [out |-> "ok", w |-> PyIntVal(parts[1]), h |-> PyIntVal(parts[2])]

(***************************************************************************)
(* Program constants.                                                      *)
(***************************************************************************)
\* capacity of the frame-rate buffer
fps_avg_len == 200

(***************************************************************************)
(* Inputs of the client.                                                   *)
(***************************************************************************)
Sources ==
    { <<"d">>,
      <<"a", ".", "j", "p", "g">>, <<"a", ".", "J", "p", "g">>,
      <<"v", ".", "m", "p", "4">>, <<"a", ".", "t", "x", "t">>,
      <<"u", "s", "b", "0">>, <<"u", "s", "b">>,
      <<"u", "s", "b", "-", "1">>, <<"u", "s", "b", "x">>,
      <<"p", "i", "c", "a", "m", "e", "r", "a", "0">>,
      <<"p", "i", "c", "a", "m", "e", "r", "a", "x">>,
      <<"r", "t", "s", "p", ":", "/", "/", "h">>,
      <<"h", "t", "t", "p", ":", "/", "/", "h">> }

FsKinds == {"none", "dir", "file"}

\* --resolution; <<>> is "not given" (None and the empty string are both falsy)
Resolutions ==
    { <<>>, <<"6", "x", "4">>, <<"6", "4">>, <<"a", "x", "4">>, <<"6", "x">> }

\* --thresh, in percent
Threshs == {50, 70}

\* confidences a detection can carry, in percent
Confs == {30, 50, 70}

(***************************************************************************)
(* What the server at --server_url may answer.  A JSON body is a list, or  *)
(* an object with or without the key `predictions`; its value is null or a *)
(* list whose elements are numbers or objects.  An object's `confidence`   *)
(* is missing, a number or a string; its box corners are integers or not.  *)
(***************************************************************************)
Det(ck, conf, box) == [t |-> "obj", ck |-> ck, conf |-> conf, box |-> box]

DetItems ==
    { [t |-> "num", ck |-> "missing", conf |-> 0, box |-> "int"] }
      \cup { Det("num", c, "int") : c \in Confs }
      \cup { Det("missing", 0, "int"), Det("str", 0, "int"), Det("num", 70, "bad") }

DetLists == UNION { [1..n -> DetItems] : n \in 0..MaxDets }

\* the detections app_server_x.py builds: objects with integer corners and a
\* float confidence (a client default stands in where a key is absent)
SoundItems == { Det("num", c, "int") : c \in Confs } \cup { Det("missing", 0, "int") }

SoundLists == UNION { [1..n -> SoundItems] : n \in 0..MaxDets }

Body(t, has, pt, items) == [t |-> t, has_pred |-> has, pt |-> pt, items |-> items]

NoBody == Body("nonjson", FALSE, "none", <<>>)

Bodies ==
    { NoBody, Body("list", FALSE, "none", <<>>), Body("obj", FALSE, "none", <<>>),
      Body("obj", TRUE, "null", <<>>) }
      \cup { Body("obj", TRUE, "list", l) : l \in DetLists }

Resp(kind, status, body) == [kind |-> kind, status |-> status, body |-> body]

NoResp == Resp("none", 0, NoBody)

\* the exchanges that fail before any status line arrives
TransportFailures == { Resp("timeout", 0, NoBody), Resp("connerr", 0, NoBody) }

Responses ==
    TransportFailures
      \cup { Resp("http", st, NoBody) : st \in {400, 500} }
      \cup { Resp("http", 200, b) : b \in Bodies }

\* a server that keeps to the wire protocol
SoundResponses ==
    TransportFailures
      \cup { Resp("http", st, NoBody) : st \in {400, 500} }
      \cup { Resp("http", 200, Body("obj", TRUE, "list", l)) : l \in SoundLists }

\* what --server_url leads to: nothing ("down"), a server that keeps to the
\* protocol ("sound"), or anything that speaks HTTP ("any")
ResponsesOf(server) ==
    IF server = "down" THEN TransportFailures
    ELSE IF server = "sound" THEN SoundResponses
    ELSE Responses

Keys == {"q", "Q", "s", "S", "p", "P", "x", "none"}

VARIABLES
    \* command line and environment
    img_source, fs, user_res, record, min_thresh, server, frame_budget,
    \* startup
    pc, source_type, cam_idx, resize, resWH, recorder, cap, imgs_list, img_count,
    \* loop
    frames_read, frame, response, predictions, object_count, boxes,
    display_frame, key, frame_rate_buffer, avg_frame_rate,
    \* what the process has done so far
    acquired, requests, shown, written, snapshot, samples, windows,
    fps_printed, exit_status, diag, exit_cause,
    \* inference service
    model_loaded, srv_pc, request, reply, served

argVars == <<img_source, fs, user_res, record, min_thresh, server, frame_budget>>
startVars == <<source_type, cam_idx, resize, resWH, recorder, cap, imgs_list>>
loopVars == <<img_count, frames_read, frame, response, predictions, object_count,
              boxes, display_frame, key, frame_rate_buffer, avg_frame_rate>>
doneVars == <<acquired, requests, shown, written, snapshot, samples, windows,
              fps_printed>>
exitVars == <<exit_status, diag, exit_cause>>
serverVars == <<model_loaded, srv_pc, request, reply, served>>
clientVars == <<argVars, pc, startVars, loopVars, doneVars, exitVars>>
vars == <<clientVars, serverVars>>

NoFrame == [boxes |-> <<>>, count |-> 0, resized |-> FALSE, fps |-> FALSE]
EmptyList == [pt |-> "list", items |-> <<>>]

(***************************************************************************)
(* The inference service: one request to /predict at a time.               *)
(*                                                                         *)
(* A request has a method, a content type that is JSON or not, and a body. *)
(* A body is unparseable, or a JSON number, null, string, list of strings  *)
(* or object; an object may hold the key `image`, whose value is a number, *)
(* null or a string.  The string is text over: "A" (any character of the   *)
(* base64 alphabet), "=" (padding), "!" (an ASCII character outside the    *)
(* alphabet) and "eacute" (a character outside ASCII).  is_img tells       *)
(* whether the bytes it decodes to are an image cv2.imdecode can read.     *)
(***************************************************************************)
B64Chars == {"A", "=", "!", "eacute"}

B64Texts == UNION { [1..n -> B64Chars] : n \in 0..MaxB64Len }

Value(t, chars, is_img) == [t |-> t, chars |-> chars, is_img |-> is_img]

NoValue == Value("none", <<>>, FALSE)

JBody(t, text, elems, has_image, image) ==
    [t |-> t, text |-> text, elems |-> elems, has_image |-> has_image,
     image |-> image]

IMAGE == <<"i", "m", "a", "g", "e">>

\* binascii.a2b_base64 without strict mode, from character i on: characters
\* outside the alphabet are skipped, a completed pad sequence ends the scan
RECURSIVE B64Scan(_, _, _, _, _)
B64Scan(s, i, quad_pos, pads, nbytes) ==
    IF i > Len(s)
    THEN IF quad_pos # 0 THEN [out |-> "b64_error", n |-> 0]
         ELSE [out |-> "ok", n |-> nbytes]
    ELSE IF s[i] = "="
    THEN IF quad_pos >= 2 /\ quad_pos + pads + 1 >= 4
         THEN [out |-> "ok", n |-> nbytes]
         ELSE B64Scan(s, i + 1, quad_pos,
                      IF quad_pos >= 2 THEN pads + 1 ELSE pads, nbytes)
    ELSE IF s[i] # "A" THEN B64Scan(s, i + 1, quad_pos, pads, nbytes)
    ELSE IF quad_pos = 0 THEN B64Scan(s, i + 1, 1, 0, nbytes)
    ELSE B64Scan(s, i + 1, (quad_pos + 1) % 4, 0, nbytes + 1)

\* base64.b64decode(image_b64)
b64decode(v) ==
    IF v.t # "str" THEN [out |-> "type_error", n |-> 0]
    ELSE IF \E i \in 1..Len(v.chars) : v.chars[i] = "eacute"
    THEN [out |-> "value_error", n |-> 0]
    ELSE B64Scan(v.chars, 1, 0, 0, 0)

ImageValues ==
    { Value("num", <<>>, FALSE), Value("null", <<>>, FALSE) }
      \cup { Value("str", c, FALSE) : c \in B64Texts }
      \cup { Value("str", c, TRUE) :
                c \in { x \in B64Texts :
                          LET d == b64decode(Value("str", x, FALSE))
                          IN  d.out = "ok" /\ d.n > 0 } }

JBodies ==
    { JBody("invalid", <<>>, <<>>, FALSE, NoValue),
      JBody("num", <<>>, <<>>, FALSE, NoValue),
      JBody("null", <<>>, <<>>, FALSE, NoValue),
      JBody("str", <<"a">>, <<>>, FALSE, NoValue),
      JBody("str", <<"a">> \o IMAGE, <<>>, FALSE, NoValue),
      JBody("list", <<>>, <<>>, FALSE, NoValue),
      JBody("list", <<>>, <<"image">>, FALSE, NoValue),
      JBody("obj", <<>>, <<>>, FALSE, NoValue) }
      \cup { JBody("obj", <<>>, <<>>, TRUE, v) : v \in ImageValues }

Req(method, is_json, body) == [method |-> method, is_json |-> is_json, body |-> body]

NoReq == Req("none", FALSE, JBody("invalid", <<>>, <<>>, FALSE, NoValue))

Requests == { Req(m, j, b) : m \in {"POST", "GET"}, j \in BOOLEAN, b \in JBodies }

\* a response to req: its status, and whether its body is the service's own
\* JSON object with an `error` field or with `predictions`
Reply(req, status, error, preds) ==
    [status |-> status, error |-> error, predictions |-> preds]

NoReply == Reply(NoReq, 0, FALSE, FALSE)

\* the substring test `sub in text`
Contains(text, sub) ==
    \E i \in 1..(Len(text) - Len(sub) + 1) :
        SubSeq(text, i, i + Len(sub) - 1) = sub

\* `'image' in request.json`: "type_error" where the operand has no `in`
HasImageKey(b) ==
    CASE b.t = "obj" -> IF b.has_image THEN "yes" ELSE "no"
      [] b.t = "str" -> IF Contains(b.text, IMAGE) THEN "yes" ELSE "no"
      [] b.t = "list" -> IF \E i \in 1..Len(b.elems) : b.elems[i] = "image"
                         THEN "yes" ELSE "no"
      [] OTHER -> "type_error"

\* the body of predict() from the try on
PredictImage(req, v, loaded) ==
    LET d == b64decode(v)
    IN  IF d.out = "b64_error" THEN Reply(req, 400, TRUE, FALSE)
        ELSE IF d.out # "ok" THEN Reply(req, 500, TRUE, FALSE)
        \* cv2.imdecode raises on an empty buffer
        ELSE IF d.n = 0 THEN Reply(req, 500, TRUE, FALSE)
        \* frame is None
        ELSE IF ~v.is_img THEN Reply(req, 400, TRUE, FALSE)
        \* `model` is unbound when loading failed at startup
        ELSE IF ~loaded THEN Reply(req, 500, TRUE, FALSE)
        ELSE Reply(req, 200, FALSE, TRUE)

\* the route and predict(): Flask answers by itself a method that is not
\* POST (405), a JSON body that does not parse (400) and an exception that
\* escapes predict() (500), each with an HTML body
predict(req, loaded) ==
    IF req.method # "POST" THEN Reply(req, 405, FALSE, FALSE)
    ELSE IF ~req.is_json THEN Reply(req, 400, TRUE, FALSE)
    ELSE IF req.body.t = "invalid" THEN Reply(req, 400, FALSE, FALSE)
    ELSE IF HasImageKey(req.body) = "type_error" THEN Reply(req, 500, FALSE, FALSE)
    ELSE IF HasImageKey(req.body) = "no" THEN Reply(req, 400, TRUE, FALSE)
    ELSE IF req.body.t # "obj" THEN Reply(req, 500, FALSE, FALSE)
    ELSE PredictImage(req, req.body.image, loaded)

\* a request arrives; `request` holds it until the next one does
Receive ==
    /\ srv_pc = "idle"
    /\ served < MaxReqs
    /\ request' \in Requests
    /\ srv_pc' = "handling"
    /\ UNCHANGED <<clientVars, model_loaded, reply, served>>

Predict ==
    /\ srv_pc = "handling"
    /\ reply' = predict(request, model_loaded)
    /\ srv_pc' = "idle"
    /\ served' = served + 1
    /\ UNCHANGED <<clientVars, model_loaded, request>>

ServerNext == Receive \/ Predict

(***************************************************************************)
(* Initial states: the arguments and the environment are chosen, nothing   *)
(* has run yet.                                                            *)
(***************************************************************************)
ClientStart ==
    /\ pc = "resolve"
    /\ source_type = "unset" /\ cam_idx = 0
    /\ resize = FALSE /\ resWH = <<0, 0>>
    /\ recorder = "none" /\ cap = "none"
    /\ imgs_list = <<>> /\ img_count = 0
    /\ frames_read = 0 /\ frame = "none"
    /\ response = NoResp /\ predictions = EmptyList
    /\ object_count = 0 /\ boxes = <<>>
    /\ display_frame = NoFrame /\ key = "none"
    /\ frame_rate_buffer = <<>> /\ avg_frame_rate = [num |-> 0, den |-> 1]
    /\ acquired = 0 /\ requests = 0 /\ shown = 0 /\ written = 0
    /\ snapshot = NoFrame /\ samples = 0 /\ windows = "none"
    /\ fps_printed = FALSE
    /\ exit_status = 0 /\ diag = "none" /\ exit_cause = "none"

ServerIdle ==
    /\ model_loaded = TRUE /\ srv_pc = "idle" /\ request = NoReq
    /\ reply = NoReply /\ served = 0

\* every command line, with a server that answers or one that cannot be reached
Init ==
    /\ img_source \in Sources /\ fs \in FsKinds
    /\ user_res \in Resolutions /\ record \in BOOLEAN
    /\ min_thresh = 50 /\ server \in {"down", "any"}
    /\ frame_budget = MaxFrames
    /\ ClientStart /\ ServerIdle

\* one source of each type, with a server that keeps to the protocol
LoopSources ==
    { <<(<<"d">>), "dir">>,
      <<(<<"a", ".", "j", "p", "g">>), "file">>,
      <<(<<"v", ".", "m", "p", "4">>), "file">>,
      <<(<<"u", "s", "b", "0">>), "none">>,
      <<(<<"p", "i", "c", "a", "m", "e", "r", "a", "0">>), "none">>,
      <<(<<"r", "t", "s", "p", ":", "/", "/", "h">>), "none">> }

InitLoop ==
    /\ \E sf \in LoopSources : img_source = sf[1] /\ fs = sf[2]
    /\ \/ user_res = <<>> /\ record = FALSE
       \/ user_res = <<"6", "x", "4">> /\ record = TRUE
    /\ min_thresh \in Threshs /\ server = "sound"
    /\ frame_budget = MaxFrames
    /\ ClientStart /\ ServerIdle

\* a camera that runs longer than the frame-rate buffer is deep
InitFps ==
    /\ img_source = <<"u", "s", "b", "0">> /\ fs = "none"
    /\ user_res = <<>> /\ record = FALSE
    /\ min_thresh = 50 /\ server = "down"
    /\ frame_budget = fps_avg_len + FpsRunExtra
    /\ ClientStart /\ ServerIdle

(***************************************************************************)
(* Leaving the process: sys.exit(status) after a message, or an exception  *)
(* nobody catches (traceback, status 1).                                   *)
(***************************************************************************)
Exit(status, message, cause) ==
    /\ pc' = "exited"
    /\ exit_status' = status /\ diag' = message /\ exit_cause' = cause

Uncaught == Exit(1, "traceback", "exception")

(***************************************************************************)
(* Startup.                                                                *)
(***************************************************************************)
ResolveSource ==
    /\ pc = "resolve"
    /\ LET r == ResolveSourceType(img_source, fs)
       IN  /\ source_type' = IF r.type = "value_error"
                             THEN (IF StartsWith(img_source, USB) THEN "usb" ELSE "picamera")
                             ELSE IF r.type \in SourceTypes THEN r.type ELSE source_type
           /\ cam_idx' = r.idx
           /\ CASE r.type = "unsupported_ext" -> Exit(0, "ext_unsupported", "config")
                [] r.type = "invalid" -> Exit(0, "source_invalid", "config")
                [] r.type = "value_error" -> Uncaught
                [] OTHER -> pc' = "parse_res" /\ UNCHANGED exitVars
    /\ UNCHANGED <<argVars, resize, resWH, recorder, cap, imgs_list, loopVars,
                   doneVars, serverVars>>

ParseResolution ==
    /\ pc = "parse_res"
    /\ IF user_res # <<>>
       THEN LET r == ParseRes(user_res)
            IN  /\ resize' = TRUE
                /\ resWH' = IF r.out = "ok" THEN <<r.w, r.h>> ELSE resWH
                /\ CASE r.out = "value_error" -> Exit(0, "res_invalid", "config")
                     [] r.out = "index_error" -> Uncaught
                     [] OTHER -> pc' = "record_setup" /\ UNCHANGED exitVars
       ELSE pc' = "record_setup" /\ UNCHANGED <<resize, resWH, exitVars>>
    /\ UNCHANGED <<argVars, source_type, cam_idx, recorder, cap, imgs_list,
                   loopVars, doneVars, serverVars>>

\* cv2.VideoWriter(...) opens the file, or fails to (isOpened() is then False)
SetupRecord ==
    /\ pc = "record_setup"
    /\ IF record
       THEN IF source_type \notin {"video", "usb", "rtsp", "picamera"}
            THEN Exit(0, "record_source", "config") /\ UNCHANGED recorder
            ELSE IF user_res = <<>>
            THEN Exit(0, "record_no_res", "config") /\ UNCHANGED recorder
            ELSE /\ recorder' \in {"open", "failed"}
                 /\ pc' = "init_source" /\ UNCHANGED exitVars
       ELSE pc' = "init_source" /\ UNCHANGED <<recorder, exitVars>>
    /\ UNCHANGED <<argVars, source_type, cam_idx, resize, resWH, cap, imgs_list,
                   loopVars, doneVars, serverVars>>

\* the image files of a folder, each readable by cv2.imread or not
ImgLists == UNION { [1..n -> {"ok", "bad"}] : n \in 0..MaxImgs }

InitSource ==
    /\ pc = "init_source"
    /\ CASE source_type = "image" ->
              /\ imgs_list' \in [1..1 -> {"ok", "bad"}]
              /\ pc' = "acquire" /\ UNCHANGED <<cap, exitVars>>
         [] source_type = "folder" ->
              /\ imgs_list' \in ImgLists
              /\ pc' = "acquire" /\ UNCHANGED <<cap, exitVars>>
         [] source_type \in CapTypes ->
              \* cv2.VideoCapture(cap_arg), then cap.isOpened()
              /\ \E opened \in BOOLEAN :
                    IF opened
                    THEN cap' = "open" /\ pc' = "acquire" /\ UNCHANGED exitVars
                    ELSE cap' = "failed" /\ Exit(0, "cap_open_failed", "config")
              /\ UNCHANGED imgs_list
         [] OTHER ->
              \* Picamera2() acquires the camera; the resolution is checked after
              /\ cap' = "open"
              /\ IF user_res = <<>>
                 THEN Exit(0, "picam_no_res", "config")
                 ELSE pc' = "acquire" /\ UNCHANGED exitVars
              /\ UNCHANGED imgs_list
    /\ UNCHANGED <<argVars, source_type, cam_idx, resize, resWH, recorder,
                   loopVars, doneVars, serverVars>>

(***************************************************************************)
(* The loop, one step per stage of an iteration.                           *)
(***************************************************************************)
Acquire ==
    /\ pc = "acquire"
    /\ CASE source_type \in {"image", "folder"} ->
              IF img_count >= Len(imgs_list)
              THEN /\ Exit(0, "images_done", "exhausted")
                   /\ UNCHANGED <<img_count, frames_read, frame, acquired>>
              ELSE /\ img_count' = img_count + 1
                   /\ IF imgs_list[img_count + 1] = "ok"
                      THEN frame' = "img" /\ acquired' = acquired + 1 /\ pc' = "request"
                      ELSE frame' = "none" /\ UNCHANGED <<acquired, pc>>
                   /\ UNCHANGED <<frames_read, exitVars>>
         [] source_type \in CapTypes ->
              \E ret \in BOOLEAN :
                 IF ret
                 THEN /\ frames_read < frame_budget
                      /\ frames_read' = frames_read + 1
                      /\ frame' = "img" /\ acquired' = acquired + 1
                      /\ pc' = "request"
                      /\ UNCHANGED <<img_count, exitVars>>
                 ELSE /\ frame' = "none"
                      /\ pc' = "cleanup"
                      /\ diag' = "unreadable" /\ exit_cause' = "unreadable"
                      /\ UNCHANGED <<img_count, frames_read, acquired, exit_status>>
         [] OTHER ->
              \* cap.capture_array(): the camera module always delivers
              /\ frames_read < frame_budget
              /\ frames_read' = frames_read + 1
              /\ frame' = "img" /\ acquired' = acquired + 1
              /\ pc' = "request"
              /\ UNCHANGED <<img_count, exitVars>>
    /\ UNCHANGED <<argVars, startVars, response, predictions, object_count, boxes,
                   display_frame, key, frame_rate_buffer, avg_frame_rate,
                   requests, shown, written, snapshot, samples, windows,
                   fps_printed, serverVars>>

\* what the try block leaves in `predictions`
PredictionsOf(r) ==
    IF r.kind # "http" THEN EmptyList
    ELSE IF r.status >= 400 THEN EmptyList
    ELSE IF r.body.t # "obj" THEN EmptyList
    ELSE IF ~r.body.has_pred THEN EmptyList
    ELSE [pt |-> r.body.pt, items |-> r.body.items]

Request ==
    /\ pc = "request"
    /\ \E r \in ResponsesOf(server) :
          /\ response' = r
          /\ predictions' = PredictionsOf(r)
    /\ requests' = requests + 1
    /\ pc' = "draw"
    /\ UNCHANGED <<argVars, startVars, img_count, frames_read, frame,
                   object_count, boxes, display_frame, key, frame_rate_buffer,
                   avg_frame_rate, acquired, shown, written, snapshot, samples,
                   windows, fps_printed, exitVars, serverVars>>

\* a comparison that also draws a confidence equal to the threshold
Exceeds_OrEqual(conf, thresh) == conf >= thresh

\* conf > min_thresh
Exceeds(conf, thresh) == conf > thresh

\* the for loop over predictions, from element i on: the boxes drawn, their
\* count, and whether an element raised an exception
RECURSIVE DrawFrom(_, _, _, _, _)
DrawFrom(items, i, drawn, count, thresh) ==
    IF i > Len(items) THEN [crash |-> FALSE, boxes |-> drawn, count |-> count]
    ELSE LET d == items[i]
             conf == IF d.ck = "missing" THEN 0 ELSE d.conf
             stop == [crash |-> TRUE, boxes |-> drawn, count |-> count]
         IN  IF d.t # "obj" THEN stop
             ELSE IF d.ck = "str" THEN stop
             ELSE IF Exceeds(conf, thresh)
             THEN IF d.box # "int" THEN stop
                  ELSE DrawFrom(items, i + 1, Append(drawn, i), count + 1, thresh)
             ELSE DrawFrom(items, i + 1, drawn, count, thresh)

Draw ==
    /\ pc = "draw"
    /\ LET d == IF predictions.pt # "list"
                THEN [crash |-> TRUE, boxes |-> <<>>, count |-> 0]
                ELSE DrawFrom(predictions.items, 1, <<>>, 0, min_thresh)
       IN  /\ object_count' = d.count
           /\ boxes' = d.boxes
           /\ IF d.crash THEN Uncaught ELSE pc' = "show" /\ UNCHANGED exitVars
    /\ UNCHANGED <<argVars, startVars, img_count, frames_read, frame, response,
                   predictions, display_frame, key, frame_rate_buffer,
                   avg_frame_rate, doneVars, serverVars>>

Show ==
    /\ pc = "show"
    /\ display_frame' = [boxes |-> boxes, count |-> object_count,
                         resized |-> resize,
                         fps |-> source_type \in {"video", "usb", "picamera", "rtsp"}]
    /\ shown' = shown + 1
    /\ windows' = "open"
    /\ written' = IF record /\ recorder = "open" THEN written + 1 ELSE written
    /\ pc' = "waitkey"
    /\ UNCHANGED <<argVars, startVars, img_count, frames_read, frame, response,
                   predictions, object_count, boxes, key, frame_rate_buffer,
                   avg_frame_rate, acquired, requests, snapshot, samples,
                   fps_printed, exitVars, serverVars>>

\* a key test that knows the lower-case letters only
KeyClass_LowerOnly(k) ==
    IF k = "q" THEN "quit"
    ELSE IF k = "s" THEN "pause"
    ELSE IF k = "p" THEN "snapshot"
    ELSE "other"

KeyClass(k) ==
    IF k = "q" \/ k = "Q" THEN "quit"
    ELSE IF k = "s" \/ k = "S" THEN "pause"
    ELSE IF k = "p" \/ k = "P" THEN "snapshot"
    ELSE "other"

\* cv2.waitKey() blocks for a key on image and folder sources;
\* cv2.waitKey(5) may return without one
WaitKey ==
    /\ pc = "waitkey"
    /\ \E k \in Keys :
          /\ source_type \in {"image", "folder"} => k # "none"
          /\ key' = k
          /\ CASE KeyClass(k) = "quit" ->
                    /\ pc' = "cleanup" /\ exit_cause' = "quit"
                    /\ UNCHANGED <<snapshot, exit_status, diag>>
               [] KeyClass(k) = "pause" ->
                    pc' = "paused" /\ UNCHANGED <<snapshot, exitVars>>
               [] KeyClass(k) = "snapshot" ->
                    pc' = "fps" /\ snapshot' = display_frame /\ UNCHANGED exitVars
               [] OTHER ->
                    pc' = "fps" /\ UNCHANGED <<snapshot, exitVars>>
    /\ UNCHANGED <<argVars, startVars, img_count, frames_read, frame, response,
                   predictions, object_count, boxes, display_frame,
                   frame_rate_buffer, avg_frame_rate, acquired, requests, shown,
                   written, samples, windows, fps_printed, serverVars>>

\* the cv2.waitKey() of the pause returns on the next key, whatever it is
Resume ==
    /\ pc = "paused"
    /\ pc' = "fps"
    /\ UNCHANGED <<argVars, startVars, loopVars, doneVars, exitVars, serverVars>>

RECURSIVE SeqSum(_)
SeqSum(s) == IF s = <<>> THEN 0 ELSE s[1] + SeqSum(Tail(s))

\* np.mean, as an exact fraction
Mean(s) == [num |-> SeqSum(s), den |-> Len(s)]

\* an eviction that drops the newest sample (pop() for pop(0))
PushSample_DropsNewest(buf, x) ==
    IF Len(buf) >= fps_avg_len
    THEN Append(SubSeq(buf, 1, Len(buf) - 1), x)
    ELSE Append(buf, x)

PushSample(buf, x) ==
    IF Len(buf) >= fps_avg_len THEN Append(Tail(buf), x) ELSE Append(buf, x)

\* frame_rate_calc is represented by the ordinal of the iteration that
\* measured it, so that every sample is told from every other
FpsAccount ==
    /\ pc = "fps"
    /\ samples' = samples + 1
    /\ frame_rate_buffer' = PushSample(frame_rate_buffer, samples + 1)
    /\ avg_frame_rate' = Mean(frame_rate_buffer')
    /\ pc' = "acquire"
    /\ UNCHANGED <<argVars, startVars, img_count, frames_read, frame, response,
                   predictions, object_count, boxes, display_frame, key,
                   acquired, requests, shown, written, snapshot, windows,
                   fps_printed, exitVars, serverVars>>

Cleanup ==
    /\ pc = "cleanup"
    /\ fps_printed' = TRUE
    /\ cap' = IF source_type \in CapTypes
              THEN (IF cap = "open" THEN "released" ELSE cap)
              ELSE IF source_type = "picamera" THEN "released"
              ELSE cap
    /\ recorder' = IF record /\ recorder = "open" THEN "released" ELSE recorder
    /\ windows' = "closed"
    /\ pc' = "exited"
    /\ exit_status' = 0
    /\ UNCHANGED <<argVars, source_type, cam_idx, resize, resWH, imgs_list,
                   loopVars, acquired, requests, shown, written, snapshot,
                   samples, diag, exit_cause, serverVars>>

\* the service alone: the model loaded at startup, or failed to
InitServer ==
    /\ img_source = <<"d">> /\ fs = "none" /\ user_res = <<>>
    /\ record = FALSE /\ min_thresh = 50 /\ server = "any"
    /\ frame_budget = 0
    /\ ClientStart
    /\ model_loaded \in BOOLEAN /\ srv_pc = "idle"
    /\ request = NoReq /\ reply = NoReply /\ served = 0

SpecServer == InitServer /\ [][ServerNext]_vars

ClientNext ==
    \/ ResolveSource \/ ParseResolution \/ SetupRecord \/ InitSource
    \/ Acquire \/ Request \/ Draw \/ Show \/ WaitKey \/ Resume \/ FpsAccount
    \/ Cleanup

Next == ClientNext

Spec == Init /\ [][Next]_vars

SpecLoop == InitLoop /\ [][Next]_vars

SpecFps == InitFps /\ [][Next]_vars

(***************************************************************************)
(* Properties.                                                             *)
(***************************************************************************)
LoopStages == {"acquire", "request", "draw", "show", "waitkey", "paused", "fps"}

\* the stages of an iteration in which the frame has been rendered
Rendered == {"waitkey", "paused", "fps"}

\* the exchange failed: no answer, an error status, a body that is not JSON,
\* or JSON that is not an object holding a list of objects
ExchangeFailed(r) ==
    \/ r.kind \in {"timeout", "connerr"}
    \/ r.kind = "http" /\ r.status >= 400
    \/ r.kind = "http" /\ r.status = 200
         /\ \/ r.body.t # "obj"
            \/ ~r.body.has_pred
            \/ r.body.pt # "list"
            \/ \E i \in 1..Len(r.body.items) : r.body.items[i].t # "obj"

\* C1: whenever the inference exchange of a frame fails (timeout, connection
\* failure, HTTP error status, non-JSON body, or a body that is not an object
\* with a list of detection objects), the frame is rendered with zero
\* detections and the process does not end on an exception.
C1_FailedExchangeRendersZero ==
    (response # NoResp /\ ExchangeFailed(response)) =>
        /\ pc = "exited" => exit_cause # "exception"
        /\ pc \in Rendered => display_frame.count = 0 /\ display_frame.boxes = <<>>

\* C2: when the loop has ended because the images are exhausted, a read of the
\* capture source failed or the quit key was pressed, the process exits only
\* after the capture handle and the recorder are released if open, the
\* windows are closed and the final average frame rate is printed.
C2_LoopEndReachesStopped ==
    (pc = "exited" /\ exit_cause \in {"exhausted", "unreadable", "quit"}) =>
        /\ cap # "open" /\ recorder # "open"
        /\ windows = "closed"
        /\ fps_printed

\* C3: the process never has exited with the capture handle or the recorder
\* still open.
C3_ExitReleasesResources ==
    pc = "exited" => cap # "open" /\ recorder # "open"

\* a payload a strict base64 reader accepts: alphabet characters in groups of
\* four, the last group padded with at most two "="
StrictB64(c) ==
    /\ Len(c) % 4 = 0
    /\ \A i \in 1..Len(c) : c[i] \in {"A", "="}
    /\ \A i \in 1..Len(c) : c[i] = "=" => i > Len(c) - 2 /\ \A j \in i..Len(c) : c[j] = "="

\* wrong padding, a character outside the alphabet, no bytes, or bytes that
\* are not an image
InvalidPayload(v) ==
    /\ v.t = "str"
    /\ \/ ~StrictB64(v.chars)
       \/ v.chars = <<>>
       \/ ~v.is_img

Answered == srv_pc = "idle" /\ served > 0

\* C4: a request whose `image` field is an invalid base64 payload is answered
\* with a 400-class status, never a 500-class one.
C4_InvalidBase64Gets400 ==
    (/\ Answered
     /\ request.method = "POST" /\ request.is_json
     /\ request.body.t = "obj" /\ request.body.has_image
     /\ InvalidPayload(request.body.image)) =>
        reply.status \in 400..499

\* the body is not JSON, is JSON but not an object, or is an object without `image`
MalformedBody(r) ==
    \/ ~r.is_json
    \/ r.body.t # "obj"
    \/ ~r.body.has_image

\* C5: a POST to /predict with a malformed body is answered with status 400
\* and an `error` field, and every answer to a POST that is not 200 is 400 or
\* 500 and carries an `error` field.
C5_MalformedBodyGets400 ==
    (Answered /\ request.method = "POST") =>
        /\ MalformedBody(request) => reply.status = 400 /\ reply.error
        /\ reply.status # 200 => reply.status \in {400, 500} /\ reply.error

\* a resolution without an 'x' or with a part that is not a number
MalformedRes(r) ==
    LET parts == Split(r, "x")
    IN  Len(parts) < 2 \/ ~IsDigits(parts[1]) \/ ~IsDigits(parts[2])

InvalidConfig ==
    \/ ResolveSourceType(img_source, fs).type \notin SourceTypes
    \/ user_res # <<>> /\ MalformedRes(user_res)
    \/ record /\ user_res = <<>>
    \/ record /\ ResolveSourceType(img_source, fs).type \in {"image", "folder"}

\* C6: an invalid configuration (--record without --resolution, --record with
\* an image or folder source, an unsupported source or extension, a malformed
\* --resolution) ends the process before the loop, with a message, a non-zero
\* exit status, no frame acquired and no request sent.
C6_InvalidConfigExitsNonZero ==
    InvalidConfig =>
        /\ pc \notin LoopStages /\ pc # "cleanup"
        /\ acquired = 0 /\ requests = 0
        /\ pc = "exited" => exit_status # 0 /\ diag # "none"

\* the buffer holds the last n samples taken, oldest first
LastSamples(n) == [i \in 1..n |-> samples - n + i]

\* C7: the frame-rate buffer never holds more than fps_avg_len samples; it
\* holds the most recent ones in insertion order (the oldest is evicted
\* first), and the average is taken over exactly these.
C7_BufferBoundedFifo ==
    /\ Len(frame_rate_buffer) <= fps_avg_len
    /\ frame_rate_buffer =
          LastSamples(IF samples <= fps_avg_len THEN samples ELSE fps_avg_len)
    /\ samples > fps_avg_len => \A i \in 1..Len(frame_rate_buffer) : frame_rate_buffer[i] # 1
    /\ samples > 0 =>
          /\ avg_frame_rate.den = Len(frame_rate_buffer)
          /\ avg_frame_rate.num = SeqSum(frame_rate_buffer)

\* fps_avg_len + 1 samples were taken: the first is gone, the second leads
C7_Witness ==
    /\ samples = fps_avg_len + 1
    /\ Len(frame_rate_buffer) = fps_avg_len
    /\ frame_rate_buffer[1] = 2
    /\ avg_frame_rate.num = SeqSum(LastSamples(fps_avg_len))

\* the source type the rules give, in their order
ExpectedType(src, kind) ==
    IF kind = "dir" THEN "folder"
    ELSE IF kind = "file" THEN
        IF splitext(src) \in img_ext_list THEN "image"
        ELSE IF splitext(src) \in vid_ext_list THEN "video"
        ELSE "unsupported"
    ELSE IF StartsWith(src, USB) /\ IsDigits(DropFirst(src, 3)) THEN "usb"
    ELSE IF StartsWith(src, PICAMERA) /\ IsDigits(DropFirst(src, 8)) THEN "picamera"
    ELSE IF StartsWith(src, RTSP) THEN "rtsp"
    ELSE "invalid"

\* C8: once the source is resolved, the outcome is the one the rules give:
\* directory, file by extension (else unsupported and the process ends),
\* "usb" and digits, "picamera" and digits, "rtsp://", and for any other
\* string the invalid-source message and the end of the process.
C8_SourceResolution ==
    pc # "resolve" =>
        LET e == ExpectedType(img_source, fs)
        IN  /\ e \in SourceTypes => source_type = e
            /\ e = "unsupported" => pc = "exited" /\ diag = "ext_unsupported"
            /\ e = "invalid" => pc = "exited" /\ diag = "source_invalid"

\* C9: after a rendered frame, q or Q leads to the cleanup and the exit; s or
\* S leads to the pause, which acquires no frame and sends no request and
\* ends in the running loop; p or P writes the display frame to the snapshot
\* and the loop runs on; any other key or none lets the loop run on.  After
\* the loop has stopped no frame is acquired and no request is sent.
C9_KeyStateMachine ==
    [][ /\ (pc = "waitkey" /\ pc' # "waitkey") =>
              /\ key' \in {"q", "Q"} => pc' = "cleanup"
              /\ key' \in {"s", "S"} =>
                    pc' = "paused" /\ acquired' = acquired /\ requests' = requests
              /\ key' \in {"p", "P"} => pc' = "fps" /\ snapshot' = display_frame
              /\ key' \notin {"q", "Q", "s", "S", "p", "P"} =>
                    pc' = "fps" /\ snapshot' = snapshot
              /\ key' \notin {"p", "P"} => snapshot' = snapshot
        /\ pc = "paused" =>
              pc' = "fps" /\ acquired' = acquired /\ requests' = requests
        /\ pc = "fps" => pc' = "acquire"
        /\ pc = "cleanup" => pc' = "exited"
        /\ pc \in {"cleanup", "exited"} =>
              /\ pc' \in {"cleanup", "exited"}
              /\ acquired' = acquired /\ requests' = requests /\ shown' = shown
      ]_vars

\* a snapshot was written, and later the quit key ended the loop
C9_Witness ==
    /\ pc = "exited" /\ exit_cause = "quit" /\ key \in {"q", "Q"}
    /\ windows = "closed"
    /\ snapshot # NoFrame
    /\ samples > 0

\* the confidence the client reads from a detection
ConfOf(d) == IF d.ck = "missing" THEN 0 ELSE d.conf

\* C10: on a rendered frame, a detection is drawn exactly when its confidence
\* is strictly greater than the threshold (one equal to it is not), each at
\* most once, and the count written on the frame is the number drawn.
C10_DrawnIffAboveThreshold ==
    pc \in Rendered =>
        LET items == predictions.items
            above == {i \in 1..Len(items) : ConfOf(items[i]) > min_thresh}
            drawn == {display_frame.boxes[j] : j \in 1..Len(display_frame.boxes)}
        IN  /\ drawn = above
            /\ Len(display_frame.boxes) = Cardinality(above)
            /\ display_frame.count = Cardinality(above)

\* two detections, one above the threshold and drawn, one equal to it and not
C10_Witness ==
    /\ pc = "waitkey"
    /\ Len(predictions.items) = 2
    /\ \E i \in 1..2 : ConfOf(predictions.items[i]) = min_thresh
    /\ \E i \in 1..2 : ConfOf(predictions.items[i]) > min_thresh
    /\ display_frame.count = 1

====
